---- MODULE Spec2Model ----
(***************************************************************************)
(* A model of the pattern-to-mix pipeline of rudiments:                    *)
(*   steps.rs    Steps (zeros, push, union, From<BitVec>)                  *)
(*   pattern.rs  the track grammar, Pattern::parse, Pattern::len,          *)
(*               Pattern::bind, Amplitude                                  *)
(*   audio.rs    Tempo, Sources::mix, the delay pad of play_repeat         *)
(*                                                                         *)
(* A step is the pair <<velocity, frequency>> of steps.rs, the frequency   *)
(* in hundredths of a hertz.  A line of text is a sequence of one-character*)
(* strings.  An amplitude is its value in thousandths.  A duration is a    *)
(* whole number of microseconds.                                           *)
(***************************************************************************)
EXTENDS Integers, Sequences, FiniteSets, TLC

VARIABLES
    pc,            \* position of the operation under way
    selfSteps,     \* Steps::union: the receiver
    otherSteps,    \* Steps::union: the argument `other`
    unionOut,      \* Steps::union: the returned Steps
    stepsInput,    \* parse_steps: the text it is given
    stepsOut,      \* parse_steps: its IResult
    fileExists,    \* Pattern::parse: p.is_file()
    lines,         \* Pattern::parse: the lines of the file
    lineNo,        \* Pattern::parse: the line the loop is at
    m,             \* Pattern::parse: the HashMap being filled
    parseOut,      \* Pattern::parse: its Result
    pattern,       \* Pattern::bind: self, instrument -> (Steps, Amplitude)
    instrumentation, \* Pattern::bind: sample file -> its instruments, in order
    pending,       \* Pattern::bind: sample files into_iter() has yet to yield
    sampleFile,    \* Pattern::bind: the sample file the map closure is at
    foldAt,        \* Pattern::bind: the instrument the fold is at
    foldAcc,       \* Pattern::bind: the fold's accumulator acc
    aggregate_steps, \* Pattern::bind: the running aggregate
    tracks,        \* Pattern::bind: the collected Tracks
    tempo,         \* Tempo: the u16 it wraps
    tempoOut,      \* Tempo: what the last call on it gave
    sources,       \* Sources::mix: sample source -> (Steps, Amplitude)
    sourcesLeft,   \* Sources::mix: sources iter() has yet to yield
    source,        \* Sources::mix: the source the outer loop is at
    stepAt,        \* Sources::mix: the index the inner loop is at
    mixer          \* Sources::mix: the copies added to the controller

unionVars == <<selfSteps, otherSteps, unionOut>>
stepsVars == <<stepsInput, stepsOut>>
parseVars == <<fileExists, lines, lineNo, m, parseOut>>
bindVars ==
    <<pattern, instrumentation, pending, sampleFile, foldAt, foldAcc, aggregate_steps, tracks>>
tempoVars == <<tempo, tempoOut>>
mixVars == <<sources, sourcesLeft, source, stepAt, mixer>>
vars == <<pc, unionVars, stepsVars, parseVars, bindVars, tempoVars, mixVars>>
exceptUnion == <<stepsVars, parseVars, bindVars, tempoVars, mixVars>>
exceptSteps == <<unionVars, parseVars, bindVars, tempoVars, mixVars>>
exceptParse == <<unionVars, stepsVars, bindVars, tempoVars, mixVars>>
exceptBind == <<unionVars, stepsVars, parseVars, tempoVars, mixVars>>
exceptTempo == <<unionVars, stepsVars, parseVars, bindVars>>
exceptMix == <<unionVars, stepsVars, parseVars, bindVars>>

\* ------------------------------------------------------------------ bounds
\* longest step sequence handed to Steps::union
MaxLen == 2
\* longest text handed to parse_steps
MaxTokens == 4
\* most lines in a pattern file
MaxLines == 2
\* most instruments mapped to one sample file
MaxInstruments == 2

\* ------------------------------------------------------------------ steps.rs
\* frequencies of pattern.rs, in hundredths of a hertz
FREQ_A == 44000
FREQ_B == 49388
FREQ_C == 52325
FREQ_D == 58733
\* velocities of pattern.rs
VEL_FULL == 255
VEL_D == 63

NoValue == <<"none">>

Vel(step) == step[1]
Freq(step) == step[2]

\* Steps::new
StepsNew == <<>>

\* Steps::push
Push(steps, vel, freq) == Append(steps, <<vel, freq>>)

\* Steps::zeros
Zeros(n) == [i \in 1..n |-> <<0, 0>>]

Min2(x, y) == IF x <= y THEN x ELSE y

\* a plausible slip in the closure of union: >= keeps self on a tie
UnionStepTieSelf(s1, s2) == IF Vel(s1) >= Vel(s2) THEN s1 ELSE s2

\* the closure of Steps::union
UnionStep(s1, s2) == IF Vel(s1) > Vel(s2) THEN s1 ELSE s2

\* Steps::union: zip stops at the shorter of the two
Union(this, other) ==
    [i \in 1..Min2(Len(this), Len(other)) |-> UnionStep(this[i], other[i])]

\* the steps a (u8, f32) pair is drawn from
StepValues == {<<0, 0>>, <<VEL_D, FREQ_D>>, <<VEL_FULL, FREQ_A>>, <<VEL_FULL, FREQ_B>>}

SeqsUpTo(S, n) == UNION {[1..k -> S] : k \in 0..n}

\* ------------------------------------------------------------------ pattern.rs: grammar
\* a parser's outcome: what nom's IResult carries
Ok(rest, val) == [ok |-> TRUE, rest |-> rest, val |-> val]
\* Option<f32>
None == [some |-> FALSE, v |-> 0]
Some(v) == [some |-> TRUE, v |-> v]
Err == [ok |-> FALSE, rest |-> <<>>, val |-> NoValue]

STEP_PLAY == "x"
STEP_SILENT == "-"
SEPARATOR == "|"
NOTE_A == "A"
NOTE_B == "B"
NOTE_C == "C"
NOTE_D == "D"

Blank == {" ", "\t"}
Digit == {"0", "1", "2", "3", "4", "5", "6", "7", "8", "9"}

\* the length of the longest prefix of s made of characters of S
PrefixLen(s, S) ==
    IF \E i \in 1..Len(s) : s[i] \notin S
    THEN (CHOOSE i \in 1..Len(s) :
            /\ s[i] \notin S
            /\ \A j \in 1..(i - 1) : s[j] \in S) - 1
    ELSE Len(s)

Drop(s, n) == SubSeq(s, n + 1, Len(s))
Take(s, n) == SubSeq(s, 1, n)

\* nom's space0: zero or more spaces and tabs
Space0(s) == Ok(Drop(s, PrefixLen(s, Blank)), NoValue)

\* parse_instrument: is_not(" \t"), which fails on an empty match
parse_instrument(s) ==
    LET n == PrefixLen(s, {c \in {s[i] : i \in 1..Len(s)} : c \notin Blank})
    IN  IF n = 0 THEN Err ELSE Ok(Drop(s, n), Take(s, n))

\* the tags alt() tries in parse_steps
StepTags == {STEP_PLAY, STEP_SILENT, SEPARATOR, NOTE_A, NOTE_B, NOTE_C, NOTE_D}

\* a plausible slip in the fold closure: the separator pushes a silent step
StepFoldSeparatorPushes(acc, tok) ==
    CASE tok = STEP_PLAY -> Push(acc, VEL_FULL, FREQ_A)
      [] tok = NOTE_A -> Push(acc, VEL_FULL, FREQ_A)
      [] tok = NOTE_B -> Push(acc, VEL_FULL, FREQ_B)
      [] tok = NOTE_C -> Push(acc, VEL_FULL, FREQ_C)
      [] tok = NOTE_D -> Push(acc, VEL_D, FREQ_D)
      [] OTHER -> Push(acc, 0, 0)

\* the fold closure of parse_steps
StepFold(acc, tok) ==
    CASE tok = STEP_PLAY -> Push(acc, VEL_FULL, FREQ_A)
      [] tok = STEP_SILENT -> Push(acc, 0, 0)
      [] tok = NOTE_A -> Push(acc, VEL_FULL, FREQ_A)
      [] tok = NOTE_B -> Push(acc, VEL_FULL, FREQ_B)
      [] tok = NOTE_C -> Push(acc, VEL_FULL, FREQ_C)
      [] tok = NOTE_D -> Push(acc, VEL_D, FREQ_D)
      [] OTHER -> acc

RECURSIVE FoldTokens(_, _)
FoldTokens(acc, toks) ==
    IF toks = <<>> THEN acc
    ELSE FoldTokens(StepFold(acc, Head(toks)), Tail(toks))

\* parse_steps: fold_many1 over the tags, then verify(len > 0)
parse_steps(s) ==
    LET n == PrefixLen(s, StepTags)
        v == FoldTokens(StepsNew, Take(s, n))
    IN  IF n = 0 THEN Err
        ELSE IF Len(v) > 0 THEN Ok(Drop(s, n), v) ELSE Err

DigitVal(c) ==
    CASE c = "0" -> 0 [] c = "1" -> 1 [] c = "2" -> 2 [] c = "3" -> 3
      [] c = "4" -> 4 [] c = "5" -> 5 [] c = "6" -> 6 [] c = "7" -> 7
      [] c = "8" -> 8 [] c = "9" -> 9

RECURSIVE DigitsVal(_)
DigitsVal(ds) ==
    IF ds = <<>> THEN 0
    ELSE DigitsVal(Take(ds, Len(ds) - 1)) * 10 + DigitVal(ds[Len(ds)])

RECURSIVE Pow10(_)
Pow10(n) == IF n = 0 THEN 1 ELSE 10 * Pow10(n - 1)

\* nom's float on a decimal literal: [+-] digits [. [digits]] or [+-] . digits.
\* The value is num / den, negated when neg.
Float(s) ==
    LET signed == s # <<>> /\ s[1] \in {"+", "-"}
        neg == signed /\ s[1] = "-"
        s1 == IF signed THEN Tail(s) ELSE s
        ni == PrefixLen(s1, Digit)
        s2 == Drop(s1, ni)
        dot == s2 # <<>> /\ s2[1] = "."
        nf == IF dot THEN PrefixLen(Tail(s2), Digit) ELSE 0
        rest == IF dot /\ (ni > 0 \/ nf > 0) THEN Drop(Tail(s2), nf) ELSE s2
        digits == Take(s1, ni) \o (IF dot THEN Take(Tail(s2), nf) ELSE <<>>)
    IN  IF ni = 0 /\ nf = 0 THEN Err
        ELSE Ok(rest, [neg |-> neg, num |-> DigitsVal(digits), den |-> Pow10(nf)])

\* 0.0 <= v on a parsed float (-0.0 compares equal to 0.0)
GeZero(v) == ~v.neg \/ v.num = 0
\* v <= 1.0 on a parsed float
LeOne(v) == v.neg \/ v.num <= v.den

\* the float's value in thousandths
Milli(v) == (IF v.neg THEN -1 ELSE 1) * ((v.num * 1000) \div v.den)

\* a plausible slip in the verify of parse_amplitude: the lower bound left out
parse_amplitude_no_lower(s) ==
    LET f == Float(s)
    IN  IF ~f.ok THEN Ok(s, None)
        ELSE IF LeOne(f.val) THEN Ok(f.rest, Some(Milli(f.val))) ELSE Err

\* parse_amplitude: verify(opt(float), 0.0 <= v && v <= 1.0)
parse_amplitude(s) ==
    LET f == Float(s)
    IN  IF ~f.ok THEN Ok(s, None)
        ELSE IF GeZero(f.val) /\ LeOne(f.val) THEN Ok(f.rest, Some(Milli(f.val))) ELSE Err

\* Amplitude::max
AmplitudeMax == 1000

\* a plausible slip: the other amplitude is taken without comparing
AmplitudeMinKeepsOther(a, b) == b

\* Amplitude::min
AmplitudeMin(a, b) == IF a <= b THEN a ELSE b

\* Amplitude::defaulting
Defaulting(o) == IF o.some THEN o.v ELSE 1000

\* the input parse_amplitude is given by parse_track, when the line gets there
AmplitudeInput(s) ==
    LET a == Space0(s)
        b == parse_instrument(a.rest)
        c == Space0(b.rest)
        d == parse_steps(c.rest)
        e == Space0(d.rest)
    IN  IF b.ok /\ d.ok THEN Ok(e.rest, NoValue) ELSE Err

\* parse_track
parse_track(s) ==
    LET a == Space0(s)
        b == parse_instrument(a.rest)
        c == Space0(b.rest)
        d == parse_steps(c.rest)
        e == Space0(d.rest)
        f == parse_amplitude(e.rest)
        g == Space0(f.rest)
    IN  IF ~b.ok THEN Err
        ELSE IF ~d.ok THEN Err
        ELSE IF ~f.ok THEN Err
        ELSE IF g.rest # <<>> THEN Err
        ELSE Ok(g.rest, <<b.val, d.val, Defaulting(f.val)>>)

\* ------------------------------------------------------------------ Steps::union
\* the variables of the operations that are not under way
IdleUnion == selfSteps = NoValue /\ otherSteps = NoValue /\ unionOut = NoValue
IdleSteps == stepsInput = NoValue /\ stepsOut = NoValue
IdleParse ==
    /\ fileExists = FALSE
    /\ lines = NoValue
    /\ lineNo = 0
    /\ m = NoValue
    /\ parseOut = NoValue
IdleBind ==
    /\ pattern = NoValue
    /\ instrumentation = NoValue
    /\ pending = {}
    /\ sampleFile = NoValue
    /\ foldAt = 0
    /\ foldAcc = NoValue
    /\ aggregate_steps = NoValue
    /\ tracks = NoValue
IdleTempo == tempo = 120 /\ tempoOut = [op |-> "none", panic |-> FALSE, value |-> 0]
IdleMix ==
    /\ sources = NoValue
    /\ sourcesLeft = {}
    /\ source = NoValue
    /\ stepAt = 0
    /\ mixer = NoValue

InitUnion ==
    /\ pc = "union_call"
    /\ selfSteps \in SeqsUpTo(StepValues, MaxLen)
    /\ otherSteps \in SeqsUpTo(StepValues, MaxLen)
    /\ unionOut = NoValue
    /\ IdleSteps /\ IdleParse /\ IdleBind /\ IdleTempo /\ IdleMix

CallUnion ==
    /\ pc = "union_call"
    /\ unionOut' = Union(selfSteps, otherSteps)
    /\ pc' = "union_done"
    /\ UNCHANGED <<selfSteps, otherSteps, exceptUnion>>

NextUnion == CallUnion

SpecUnion == InitUnion /\ [][NextUnion]_vars

\* C1: for step sequences A and B of equal length n, A.union(B) has length n
\* and holds at every position the step of A when velocity(A[i]) >
\* velocity(B[i]) and otherwise the step of B, velocity and frequency
\* together; on a velocity tie the step of `other` is kept.
C1_UnionKeepsHigherElseOther ==
    (pc = "union_done" /\ Len(selfSteps) = Len(otherSteps)) =>
        /\ Len(unionOut) = Len(selfSteps)
        /\ \A i \in 1..Len(selfSteps) :
            /\ selfSteps[i][1] > otherSteps[i][1] => unionOut[i] = selfSteps[i]
            /\ selfSteps[i][1] <= otherSteps[i][1] => unionOut[i] = otherSteps[i]

\* an equal-length call with a velocity tie between two different frequencies
C1_Witness ==
    /\ pc = "union_done"
    /\ Len(selfSteps) = Len(otherSteps)
    /\ \E i \in 1..Len(selfSteps) :
        /\ selfSteps[i][1] = otherSteps[i][1]
        /\ selfSteps[i][2] # otherSteps[i][2]
        /\ unionOut[i] = otherSteps[i]
    /\ \E i \in 1..Len(selfSteps) :
        /\ selfSteps[i][1] > otherSteps[i][1]
        /\ unionOut[i] = selfSteps[i]

\* ------------------------------------------------------------------ parse_steps
\* the characters the text given to parse_steps is drawn from
StepsAlphabet == {STEP_PLAY, STEP_SILENT, SEPARATOR, NOTE_B, "z"}

InitSteps ==
    /\ pc = "steps_call"
    /\ stepsInput \in SeqsUpTo(StepsAlphabet, MaxTokens)
    /\ stepsOut = NoValue
    /\ IdleUnion /\ IdleParse /\ IdleBind /\ IdleTempo /\ IdleMix

CallParseSteps ==
    /\ pc = "steps_call"
    /\ stepsOut' = parse_steps(stepsInput)
    /\ pc' = "steps_done"
    /\ UNCHANGED <<stepsInput, exceptSteps>>

NextSteps == CallParseSteps

SpecSteps == InitSteps /\ [][NextSteps]_vars

IsStepToken(c) == c \in {"x", "-"}
PlainRun(s) == \A i \in 1..Len(s) : s[i] \in {"x", "-", "|"}

\* C4: parse_steps on a non-empty run of x, - and | holding n >= 1 step
\* tokens succeeds with exactly n entries in token order, x as (255, 440.0)
\* and - as (0, 0.0); | adds no entry and never makes the parse fail; with no
\* step token, and on the empty input, it is a parse error.
C4_ParseStepsOneEntryPerStepToken ==
    (pc = "steps_done" /\ PlainRun(stepsInput)) =>
        LET toks == SelectSeq(stepsInput, IsStepToken)
        IN  /\ Len(toks) >= 1 =>
                /\ stepsOut.ok
                /\ stepsOut.rest = <<>>
                /\ Len(stepsOut.val) = Len(toks)
                /\ \A i \in 1..Len(toks) :
                    stepsOut.val[i] =
                        IF toks[i] = "x" THEN <<255, 44000>> ELSE <<0, 0>>
            /\ Len(toks) = 0 => ~stepsOut.ok

\* a run with separators at both ends and both kinds of step token parsed
C4_Witness ==
    /\ pc = "steps_done"
    /\ stepsInput = <<"|", "x", "-", "|">>
    /\ stepsOut.ok
    /\ stepsOut.val = <<(<<255, 44000>>), (<<0, 0>>)>>

\* ------------------------------------------------------------------ Pattern::parse
\* the pattern files: every line is one of these texts
TailTexts ==
    { <<>>,
      <<" ", "0", ".", "5">>,
      <<" ", "1", ".", "0">>,
      <<" ", "0", ".", "0">>,
      <<" ", "-", "1", ".", "0">>,
      <<" ", "1", ".", "1">>,
      <<"-", "1", ".", "0">>,
      <<" ", "0", ".", "2", "5", " ">>,
      <<" ", "z">> }

LineTexts ==
    { n \o <<" ", "|", "x", "-", "|">> \o t : n \in {<<"k">>, <<"h">>}, t \in TailTexts }
    \cup { <<>>,
           <<"k">>,
           <<"k", " ", "|">>,
           <<" ", "h", "\t", "B", "D">>,
           <<"k", "x", " ", "1">>,
           <<"h", " ", "-", " ", "1", ".">> }

\* a plausible slip: the value HashMap::insert returns is not looked at
DisplacedIgnored(map, i) == FALSE

\* whether HashMap::insert returns Some(_): the key was already there
Displaced(map, i) == i \in DOMAIN map

\* the map after HashMap::insert
Insert(map, i, v) == [k \in DOMAIN map \cup {i} |-> IF k = i THEN v ELSE map[k]]

EmptyMap == [k \in {} |-> NoValue]

Failure(kind, line) == [kind |-> kind, line |-> line, pattern |-> EmptyMap]
Success(map) == [kind |-> "Ok", line |-> <<>>, pattern |-> map]

InitParse ==
    /\ pc = "parse_open"
    /\ \/ fileExists = FALSE /\ lines = <<>>
       \/ fileExists = TRUE /\ lines \in SeqsUpTo(LineTexts, MaxLines)
    /\ lineNo = 0
    /\ m = NoValue
    /\ parseOut = NoValue
    /\ IdleUnion /\ IdleSteps /\ IdleBind /\ IdleTempo /\ IdleMix

\* the is_file test, File::open and HashMap::new (a file that is there is
\* taken to open and to read as text)
ParseOpen ==
    /\ pc = "parse_open"
    /\ IF ~fileExists
       THEN /\ parseOut' = Failure("FileDoesNotExistError", <<>>)
            /\ pc' = "parse_done"
            /\ UNCHANGED <<lineNo, m>>
       ELSE /\ m' = EmptyMap
            /\ lineNo' = 1
            /\ pc' = "parse_loop"
            /\ UNCHANGED parseOut
    /\ UNCHANGED <<fileExists, lines, exceptParse>>

\* one turn of the loop over r.lines()
ParseLine ==
    /\ pc = "parse_loop"
    /\ lineNo <= Len(lines)
    /\ LET l == lines[lineNo]
           t == parse_track(l)
       IN  IF t.ok
           THEN IF Displaced(m, t.val[1])
                THEN /\ parseOut' = Failure("DuplicatePatternError", l)
                     /\ m' = Insert(m, t.val[1], <<t.val[2], t.val[3]>>)
                     /\ pc' = "parse_done"
                     /\ UNCHANGED lineNo
                ELSE /\ m' = Insert(m, t.val[1], <<t.val[2], t.val[3]>>)
                     /\ lineNo' = lineNo + 1
                     /\ UNCHANGED <<pc, parseOut>>
           ELSE /\ parseOut' = Failure("ParseError", l)
                /\ pc' = "parse_done"
                /\ UNCHANGED <<lineNo, m>>
    /\ UNCHANGED <<fileExists, lines, exceptParse>>

\* Ok(Pattern(m)) once the lines are used up
ParseReturn ==
    /\ pc = "parse_loop"
    /\ lineNo > Len(lines)
    /\ parseOut' = Success(m)
    /\ pc' = "parse_done"
    /\ UNCHANGED <<fileExists, lines, lineNo, m, exceptParse>>

NextParse == ParseOpen \/ ParseLine \/ ParseReturn

SpecParse == InitParse /\ [][NextParse]_vars

\* line k does not parse as a track, or names an instrument of an earlier line
NoTrack(k) == ~parse_track(lines[k]).ok
Repeats(k) ==
    /\ parse_track(lines[k]).ok
    /\ \E j \in 1..(k - 1) :
        /\ parse_track(lines[j]).ok
        /\ parse_track(lines[j]).val[1] = parse_track(lines[k]).val[1]
Offending == {k \in 1..Len(lines) : NoTrack(k) \/ Repeats(k)}
FirstOffending == CHOOSE k \in Offending : \A j \in Offending : k <= j

\* C3: Pattern::parse takes the lines in order and has no partial success: it
\* returns a Pattern, with one entry per line, only when every line parses and
\* no instrument repeats; otherwise it stops at the first offending line and
\* returns an error carrying that raw line, a parse error when the line does
\* not match the grammar and a duplicate error when its instrument appeared
\* on an earlier line.
C3_ParseAllOrFirstOffendingLine ==
    (pc = "parse_done" /\ fileExists) =>
        IF Offending = {}
        THEN /\ parseOut.kind = "Ok"
             /\ Cardinality(DOMAIN parseOut.pattern) = Len(lines)
             /\ \A k \in 1..Len(lines) :
                 LET t == parse_track(lines[k]).val
                 IN  /\ t[1] \in DOMAIN parseOut.pattern
                     /\ parseOut.pattern[t[1]] = <<t[2], t[3]>>
        ELSE /\ parseOut.kind =
                    IF NoTrack(FirstOffending)
                    THEN "ParseError" ELSE "DuplicatePatternError"
             /\ parseOut.line = lines[FirstOffending]
             /\ lineNo = FirstOffending
             /\ parseOut.pattern = EmptyMap

\* a file whose second line repeats the instrument of the first
C3_Witness ==
    /\ pc = "parse_done"
    /\ fileExists
    /\ Len(lines) = 2
    /\ Repeats(2)
    /\ lines[1] # lines[2]
    /\ parseOut.kind = "DuplicatePatternError"
    /\ parseOut.line = lines[2]

\* the number parse_amplitude finds at the head of its input on line k
HasNumber(k) == AmplitudeInput(lines[k]).ok /\ Float(AmplitudeInput(lines[k]).rest).ok
NumberOf(k) == Float(AmplitudeInput(lines[k]).rest).val
OnlyBlanksAfterNumber(k) ==
    LET r == Float(AmplitudeInput(lines[k]).rest).rest
    IN  \A i \in 1..Len(r) : r[i] \in Blank
InRange(v) == (~v.neg \/ v.num = 0) /\ (v.neg \/ v.num <= v.den)

\* C5: the trailing amplitude of a track line is accepted exactly when its
\* value lies in [0.0, 1.0]: a number outside the range makes the line a
\* parse error, a line with no amplitude gets the amplitude 1.0, and every
\* amplitude stored in a parsed Pattern lies in [0.0, 1.0].
C5_AmplitudeAcceptedIffInUnitRange ==
    /\ pc \in {"parse_loop", "parse_done"} /\ fileExists =>
        \A i \in DOMAIN m : 0 <= m[i][2] /\ m[i][2] <= 1000
    /\ pc \in {"parse_loop", "parse_done"} /\ fileExists =>
        \A k \in 1..Len(lines) :
            /\ (pc = "parse_done" /\ parseOut.kind = "Ok" /\ HasNumber(k)) =>
                /\ InRange(NumberOf(k))
                /\ parseOut.pattern[parse_track(lines[k]).val[1]][2] * NumberOf(k).den
                        = NumberOf(k).num * 1000
            /\ (pc = "parse_done" /\ parseOut.kind = "Ok" /\ ~HasNumber(k)) =>
                parseOut.pattern[parse_track(lines[k]).val[1]][2] = 1000
            /\ (k <= lineNo /\ HasNumber(k) /\ ~InRange(NumberOf(k))) =>
                /\ k = lineNo
                /\ pc = "parse_done" => parseOut = Failure("ParseError", lines[k])
            /\ (pc = "parse_done" /\ k = lineNo /\ HasNumber(k)
                    /\ InRange(NumberOf(k)) /\ OnlyBlanksAfterNumber(k))
                => parseOut.kind # "ParseError"

\* a file with an amplitude above the range after one with the default
C5_Witness ==
    /\ pc = "parse_done"
    /\ fileExists
    /\ Len(lines) = 2
    /\ lines[1] = <<"k", " ", "|", "x", "-", "|">>
    /\ m[<<"k">>][2] = 1000
    /\ lines[2] = <<"h", " ", "|", "x", "-", "|", " ", "1", ".", "1">>
    /\ parseOut = Failure("ParseError", lines[2])

\* ------------------------------------------------------------------ Pattern::bind
Max2(x, y) == IF x >= y THEN x ELSE y

\* Pattern::len: the longest step sequence of the pattern
RECURSIVE MaxLenOver(_, _)
MaxLenOver(p, names) ==
    IF names = {} THEN 0
    ELSE LET i == CHOOSE i \in names : TRUE
         IN  Max2(Len(p[i][1]), MaxLenOver(p, names \ {i}))
PatternLen(p) == MaxLenOver(p, DOMAIN p)

\* Pattern::get
Get(p, i) == IF i \in DOMAIN p THEN Some(p[i]) ELSE None

\* a plausible slip: the fold seeded with the running aggregate
FoldInitFromAggregate(n, aggregate) == <<aggregate, AmplitudeMax>>

\* the initial accumulator of the fold
FoldInit(n, aggregate) == <<Zeros(n), AmplitudeMax>>

\* the step sequences and amplitudes a parsed pattern holds
BindStepTexts ==
    { <<"x", "-", "x", "-">>,
      <<"-", "x", "-", "x">>,
      <<"x", "-">>,
      <<"B", "-", "B", "-">>,
      <<"D", "x", "-", "-">> }
BindSteps == {parse_steps(t).val : t \in BindStepTexts}
BindAmplitudes == {parse_amplitude(t).val.v : t \in {<<"0", ".", "5">>, <<"1">>}}
\* Instrumentation is handed to bind from outside: each sample file comes
\* with its instruments in the order instruments.iter() yields them
Instruments == {"hihat1", "hihat2"}
SampleFiles == {"hat.wav", "kick.wav"}

InitBind ==
    /\ pc = "bind_call"
    /\ pattern \in UNION {[D -> BindSteps \X BindAmplitudes] : D \in SUBSET Instruments}
    /\ instrumentation \in
         UNION {[D -> SeqsUpTo(Instruments, MaxInstruments)] : D \in SUBSET SampleFiles}
    /\ pending = {}
    /\ sampleFile = NoValue
    /\ foldAt = 0
    /\ foldAcc = NoValue
    /\ aggregate_steps = NoValue
    /\ tracks = NoValue
    /\ IdleUnion /\ IdleSteps /\ IdleParse /\ IdleTempo /\ IdleMix

\* aggregate_steps = Steps::zeros(self.len()); instrumentation.into_iter()
BindEnter ==
    /\ pc = "bind_call"
    /\ aggregate_steps' = Zeros(PatternLen(pattern))
    /\ pending' = DOMAIN instrumentation
    /\ tracks' = EmptyMap
    /\ pc' = "bind_map"
    /\ UNCHANGED <<pattern, instrumentation, sampleFile, foldAt, foldAcc, exceptBind>>

\* the map closure takes the next (sample_file, instruments), in any order
BindNextFile ==
    /\ pc = "bind_map"
    /\ \E f \in pending :
        /\ sampleFile' = f
        /\ pending' = pending \ {f}
    /\ foldAcc' = FoldInit(PatternLen(pattern), aggregate_steps)
    /\ foldAt' = 1
    /\ pc' = "bind_fold"
    /\ UNCHANGED <<pattern, instrumentation, aggregate_steps, tracks, exceptBind>>

\* one call of the fold closure
BindFold ==
    /\ pc = "bind_fold"
    /\ foldAt <= Len(instrumentation[sampleFile])
    /\ LET got == Get(pattern, instrumentation[sampleFile][foldAt])
       IN  IF got.some
           THEN /\ aggregate_steps' = Union(aggregate_steps, got.v[1])
                /\ foldAcc' = <<Union(foldAcc[1], got.v[1]),
                                AmplitudeMin(foldAcc[2], got.v[2])>>
           ELSE UNCHANGED <<aggregate_steps, foldAcc>>
    /\ foldAt' = foldAt + 1
    /\ UNCHANGED <<pc, pattern, instrumentation, pending, sampleFile, tracks, exceptBind>>

\* the closure returns (sample_file, simplified_steps), which collect() keeps
BindCollect ==
    /\ pc = "bind_fold"
    /\ foldAt > Len(instrumentation[sampleFile])
    /\ tracks' = Insert(tracks, sampleFile, foldAcc)
    /\ pc' = "bind_map"
    /\ UNCHANGED <<pattern, instrumentation, pending, sampleFile, foldAt, foldAcc,
                   aggregate_steps, exceptBind>>

\* Tracks::from(..) once into_iter() is used up
BindReturn ==
    /\ pc = "bind_map"
    /\ pending = {}
    /\ pc' = "bind_done"
    /\ UNCHANGED <<bindVars, exceptBind>>

NextBind == BindEnter \/ BindNextFile \/ BindFold \/ BindCollect \/ BindReturn

SpecBind == InitBind /\ [][NextBind]_vars

\* the instruments of a list that exist in the pattern, in the list's order
InPattern(i) == i \in DOMAIN pattern
Present(list) == SelectSeq(list, InPattern)

\* the left fold of the spec over a list of instruments that all exist
RECURSIVE FoldOver(_, _)
FoldOver(a, list) ==
    IF list = <<>> THEN a
    ELSE FoldOver(<<Union(a[1], pattern[Head(list)][1]),
                    Min2(a[2], pattern[Head(list)][2])>>, Tail(list))
BoundTrack(list) == FoldOver(<<Zeros(PatternLen(pattern)), 1000>>, Present(list))

\* the last instrument of the list that has the highest velocity at step i
Winner(list, i) ==
    CHOOSE k \in 1..Len(list) :
        /\ \A j \in 1..Len(list) : pattern[list[j]][1][i][1] <= pattern[list[k]][1][i][1]
        /\ \A j \in (k + 1)..Len(list) :
            pattern[list[j]][1][i][1] < pattern[list[k]][1][i][1]

Shortest(list) ==
    CHOOSE n \in 0..PatternLen(pattern) :
        /\ \A j \in 1..Len(list) : n <= Len(pattern[list[j]][1])
        /\ n = PatternLen(pattern) \/ \E j \in 1..Len(list) : n = Len(pattern[list[j]][1])

Quietest(list) ==
    CHOOSE a \in {1000} \cup {pattern[list[j]][2] : j \in 1..Len(list)} :
        \A j \in 1..Len(list) : a <= pattern[list[j]][2]

\* C2: the Track bind returns for a sample file is the left fold, from
\* (zeros(pattern.len()), amplitude 1.0), over those of its instruments
\* that exist in the pattern, unioning the steps and taking the minimum
\* amplitude; absent instruments change nothing, and a sample file whose
\* instruments are all absent gets an all-silent track of pattern.len() steps
\* at amplitude 1.0.
C2_BindIsFoldOverPresentInstruments ==
    pc = "bind_done" =>
        /\ DOMAIN tracks = DOMAIN instrumentation
        /\ \A f \in DOMAIN instrumentation :
            LET list == Present(instrumentation[f])
            IN  /\ tracks[f] = BoundTrack(instrumentation[f])
                /\ tracks[f][2] = Quietest(list)
                /\ Len(tracks[f][1]) = Shortest(list)
                /\ list # <<>> =>
                    \A i \in 1..Len(tracks[f][1]) :
                        tracks[f][1][i] = pattern[list[Winner(list, i)]][1][i]
                /\ list = <<>> =>
                    tracks[f] = <<[i \in 1..PatternLen(pattern) |-> <<0, 0>>], 1000>>

\* steps 1010 at 1.0 and 0101 at 0.5 bound to hat.wav give 1111 at 0.5, and a
\* sample file whose only instrument is absent gets silence
C2_Witness ==
    /\ pc = "bind_done"
    /\ DOMAIN pattern = {"hihat1"}
    /\ pattern["hihat1"] = <<parse_steps(<<"x", "-", "x", "-">>).val, 1000>>
    /\ DOMAIN instrumentation = SampleFiles
    /\ instrumentation["hat.wav"] = <<"hihat1", "hihat2">>
    /\ instrumentation["kick.wav"] = <<"hihat2">>
    /\ tracks["hat.wav"] = pattern["hihat1"]
    /\ tracks["kick.wav"] = <<Zeros(4), 1000>>

C2_WitnessExample ==
    /\ pc = "bind_done"
    /\ DOMAIN pattern = Instruments
    /\ pattern["hihat1"] = <<parse_steps(<<"x", "-", "x", "-">>).val, 1000>>
    /\ pattern["hihat2"] = <<parse_steps(<<"-", "x", "-", "x">>).val, 500>>
    /\ "hat.wav" \in DOMAIN instrumentation
    /\ instrumentation["hat.wav"] = <<"hihat1", "hihat2">>
    /\ tracks["hat.wav"] = <<parse_steps(<<"x", "x", "x", "x">>).val, 500>>

\* C8: every Track bind returns has exactly pattern.len() steps, also when
\* the instruments of the pattern have step sequences of different lengths;
\* no step of a bound instrument is dropped.
C8_TrackHasPatternLenSteps ==
    pc = "bind_done" =>
        \A f \in DOMAIN tracks :
            /\ Len(tracks[f][1]) = PatternLen(pattern)
            /\ \A j \in 1..Len(instrumentation[f]) :
                instrumentation[f][j] \in DOMAIN pattern =>
                    Len(pattern[instrumentation[f][j]][1]) <= Len(tracks[f][1])

\* the orders a list of instruments can be folded in
Orders(list) ==
    {[k \in 1..Len(list) |-> list[q[k]]] :
        q \in {r \in [1..Len(list) -> 1..Len(list)] :
                  \A x, y \in 1..Len(list) : r[x] = r[y] => x = y}}

\* two instruments of the list tie on the velocity v at step i with
\* different frequencies
TieAt(list, i, v) ==
    \E j, k \in 1..Len(list) :
        /\ pattern[list[j]][1][i][1] = v
        /\ pattern[list[k]][1][i][1] = v
        /\ pattern[list[j]][1][i][2] # pattern[list[k]][1][i][2]

\* C9 as stated: the Track of each sample file, velocity and frequency of
\* every step and the amplitude, is the same whatever order the sample files
\* are visited in and whatever order its instruments are folded in.
C9_BindIgnoresEveryOrder ==
    pc = "bind_done" =>
        \A f \in DOMAIN tracks :
            \A list \in Orders(instrumentation[f]) : tracks[f] = BoundTrack(list)

\* C9 as amended: the Track of each sample file is the same whatever order
\* the sample files are visited in, and whatever order its instruments are
\* folded in it has the same number of steps, the same velocity at every step
\* and the same amplitude; the frequency of a step is the same too unless two
\* of its instruments tie on that step's velocity with different frequencies.
C9_BindIgnoresOrderUpToTiedFrequency ==
    pc = "bind_done" =>
        \A f \in DOMAIN tracks :
            /\ tracks[f] = BoundTrack(instrumentation[f])
            /\ \A list \in Orders(instrumentation[f]) :
                LET other == BoundTrack(list)
                IN  /\ Len(other[1]) = Len(tracks[f][1])
                    /\ other[2] = tracks[f][2]
                    /\ \A i \in 1..Len(other[1]) :
                        /\ other[1][i][1] = tracks[f][1][i][1]
                        /\ other[1][i][2] # tracks[f][1][i][2] =>
                            TieAt(Present(list), i, tracks[f][1][i][1])

\* both sample files bound, the second one visited after a first that has
\* active steps, and an order of its instruments that changes a frequency
C9_Witness ==
    /\ pc = "bind_done"
    /\ DOMAIN tracks = SampleFiles
    /\ sampleFile = "hat.wav"
    /\ \E i \in 1..Len(tracks["kick.wav"][1]) : tracks["kick.wav"][1][i][1] > 0
    /\ \E list \in Orders(instrumentation["hat.wav"]) :
        \E i \in 1..Len(tracks["hat.wav"][1]) :
            BoundTrack(list)[1][i][2] # tracks["hat.wav"][1][i][2]
    /\ tracks["hat.wav"][2] < 1000

\* ------------------------------------------------------------------ audio.rs: Tempo
U16_MAX == 65535

\* what a call on a Tempo gives: a value, or a panic
Returned(op, value) == [op |-> op, panic |-> FALSE, value |-> value]
Panicked(op) == [op |-> op, panic |-> TRUE, value |-> 0]

\* Tempo::step_duration, in microseconds: beats * 15.0 / bpm seconds.
\* Duration::from_secs_f32 panics on a value that is not finite, and a
\* division by 0.0 gives one.
StepDuration(bpm, beats) ==
    IF bpm = 0 THEN Panicked("step_duration")
    ELSE Returned("step_duration", (beats * 15000000) \div bpm)

\* Tempo::delay_factor, in thousandths: -1.0 / 120.0 * bpm + 2.0
DelayFactor(bpm) == 2000 - (1000 * bpm) \div 120

\* Duration::mul_f32, in microseconds; it panics on a negative product
MulF32(us, milli) ==
    IF milli < 0 /\ us > 0 THEN Panicked("delay_pad_duration")
    ELSE Returned("delay_pad_duration",
                  (us \div 1000) * milli + ((us % 1000) * milli) \div 1000)

\* Tempo::delay_pad_duration
DelayPadDuration(bpm) ==
    IF StepDuration(bpm, 1).panic THEN Panicked("delay_pad_duration")
    ELSE MulF32(StepDuration(bpm, 1).value, DelayFactor(bpm))

\* play_repeat: the device is opened, then the source is wrapped and handed
\* to play_raw, then the thread parks
PlayRepeat(bpm, beats, deviceOk, playOk) ==
    IF ~deviceOk THEN Returned("play_repeat", "AudioDeviceError")
    ELSE IF DelayPadDuration(bpm).panic \/ StepDuration(bpm, beats).panic
    THEN Panicked("play_repeat")
    ELSE IF playOk THEN Returned("play_repeat", "parked")
    ELSE Returned("play_repeat", "AudioDeviceError")

\* beats in a measure
Measure == {1, 16}

InitTempo ==
    /\ pc = "tempo_from"
    /\ tempo \in 0..U16_MAX
    /\ tempoOut = [op |-> "none", panic |-> FALSE, value |-> 0]
    /\ IdleUnion /\ IdleSteps /\ IdleParse /\ IdleBind /\ IdleMix

\* Tempo::from: any u16 is wrapped
TempoFrom ==
    /\ pc = "tempo_from"
    /\ pc' = "tempo_made"
    /\ UNCHANGED <<tempoVars, exceptTempo, mixVars>>

CallStepDuration ==
    /\ pc = "tempo_made"
    /\ \E beats \in Measure : tempoOut' = StepDuration(tempo, beats)
    /\ pc' = "tempo_called"
    /\ UNCHANGED <<tempo, exceptTempo, mixVars>>

CallDelayPadDuration ==
    /\ pc = "tempo_made"
    /\ tempoOut' = DelayPadDuration(tempo)
    /\ pc' = "tempo_called"
    /\ UNCHANGED <<tempo, exceptTempo, mixVars>>

CallPlayRepeat ==
    /\ pc = "tempo_made"
    /\ \E deviceOk, playOk \in BOOLEAN :
        tempoOut' = PlayRepeat(tempo, 16, deviceOk, playOk)
    /\ pc' = "tempo_called"
    /\ UNCHANGED <<tempo, exceptTempo, mixVars>>

NextTempo == TempoFrom \/ CallStepDuration \/ CallDelayPadDuration \/ CallPlayRepeat

SpecTempo == InitTempo /\ [][NextTempo]_vars

\* C6: a tempo of 0 BPM is rejected: no Tempo with value 0 can be
\* constructed, so every Tempo that reaches step_duration, delay_factor or
\* delay_pad_duration has a BPM value in 1..65535.
C6_NoTempoOfZero ==
    pc \in {"tempo_made", "tempo_called"} => tempo \in 1..65535

\* C10: for every tempo in 1..65535 BPM, delay_pad_duration() =
\* step_duration(1) * delay_factor() is a well-defined non-negative duration
\* and play_repeat never fails because of the tempo value.
C10_DelayPadDefinedForEveryTempo ==
    (pc = "tempo_called" /\ tempo \in 1..65535) =>
        /\ tempoOut.op = "delay_pad_duration" =>
            /\ ~tempoOut.panic
            /\ tempoOut.value >= 0
        /\ tempoOut.op = "play_repeat" => ~tempoOut.panic

\* within 1..240 BPM the delay pad is defined and play_repeat does not panic
DelayPadDefinedUpTo240 ==
    (pc = "tempo_called" /\ tempo \in 1..240) =>
        /\ tempoOut.op = "delay_pad_duration" =>
            /\ ~tempoOut.panic
            /\ tempoOut.value >= 0
            /\ tempo = 120 => tempoOut.value = 125000
        /\ tempoOut.op = "play_repeat" => ~tempoOut.panic

\* ------------------------------------------------------------------ audio.rs: Sources::mix
\* the gate `!step` tests: From<BitVec> turns true into velocity 255 and
\* false into velocity 0
Active(step) == Vel(step) > 0

\* controller.add(source.clone().amplify(amplitude.value()).delay(delay))
Copy(src, amplitude, delay) == [source |-> src, amplify |-> amplitude, delay |-> delay]

SampleSources == {"hat", "kick"}
MixTempos == {0, 60, 120, U16_MAX}

InitMix ==
    /\ pc = "mix_call"
    /\ tempo \in MixTempos
    /\ tempoOut = [op |-> "none", panic |-> FALSE, value |-> 0]
    /\ sources \in UNION {[D -> BindSteps \X BindAmplitudes] : D \in SUBSET SampleSources}
    /\ sourcesLeft = {}
    /\ source = NoValue
    /\ stepAt = 0
    /\ mixer = NoValue
    /\ IdleUnion /\ IdleSteps /\ IdleParse /\ IdleBind

\* dynamic_mixer::mixer(CHANNELS, SAMPLE_RATE); self.0.iter()
MixEnter ==
    /\ pc = "mix_call"
    /\ mixer' = <<>>
    /\ sourcesLeft' = DOMAIN sources
    /\ pc' = "mix_sources"
    /\ UNCHANGED <<tempoVars, sources, source, stepAt, exceptMix>>

\* the outer loop takes the next source, in any order
MixNextSource ==
    /\ pc = "mix_sources"
    /\ \E src \in sourcesLeft :
        /\ source' = src
        /\ sourcesLeft' = sourcesLeft \ {src}
    /\ stepAt' = 0
    /\ pc' = "mix_steps"
    /\ UNCHANGED <<tempoVars, sources, mixer, exceptMix>>

\* one turn of the inner loop over steps.iter().enumerate()
MixStep ==
    /\ pc = "mix_steps"
    /\ stepAt < Len(sources[source][1])
    /\ IF ~Active(sources[source][1][stepAt + 1])
       THEN /\ stepAt' = stepAt + 1
            /\ UNCHANGED <<pc, mixer, tempoOut>>
       ELSE LET d == StepDuration(tempo, 1)
            IN  IF d.panic
                THEN /\ pc' = "mix_panicked"
                     /\ tempoOut' = d
                     /\ UNCHANGED <<mixer, stepAt>>
                ELSE /\ mixer' = Append(mixer,
                            Copy(source, sources[source][2], d.value * stepAt))
                     /\ stepAt' = stepAt + 1
                     /\ tempoOut' = d
                     /\ UNCHANGED pc
    /\ UNCHANGED <<tempo, sources, sourcesLeft, source, exceptMix>>

\* the inner loop is through with the source
MixSourceDone ==
    /\ pc = "mix_steps"
    /\ stepAt >= Len(sources[source][1])
    /\ pc' = "mix_sources"
    /\ UNCHANGED <<tempoVars, mixVars, exceptMix>>

\* Ok(Box::new(mixer))
MixReturn ==
    /\ pc = "mix_sources"
    /\ sourcesLeft = {}
    /\ pc' = "mix_done"
    /\ UNCHANGED <<tempoVars, mixVars, exceptMix>>

NextMix == MixEnter \/ MixNextSource \/ MixStep \/ MixSourceDone \/ MixReturn

SpecMix == InitMix /\ [][NextMix]_vars

ActiveAt(src) == {i \in 0..(Len(sources[src][1]) - 1) : sources[src][1][i + 1][1] > 0}
CopiesOf(src, i) ==
    {k \in 1..Len(mixer) :
        /\ mixer[k].source = src
        /\ mixer[k].delay = i * ((15000000) \div tempo)}

RECURSIVE SumActive(_)
SumActive(srcs) ==
    IF srcs = {} THEN 0
    ELSE LET src == CHOOSE src \in srcs : TRUE
         IN  Cardinality(ActiveAt(src)) + SumActive(srcs \ {src})

\* C7: Sources::mix schedules exactly one copy of a sample for every active
\* step (velocity > 0) of its step sequence and none for an inactive step,
\* the copy for the step at index i scaled by the track's amplitude and
\* delayed by i times tempo.step_duration(1); the number of scheduled copies
\* is the total number of active steps over all sources.
C7_OneCopyPerActiveStep ==
    pc \in {"mix_done", "mix_panicked"} =>
        /\ Len(mixer) = SumActive(DOMAIN sources)
        /\ \A src \in DOMAIN sources :
            \A i \in 0..(Len(sources[src][1]) - 1) :
                IF i \in ActiveAt(src)
                THEN /\ Cardinality(CopiesOf(src, i)) = 1
                     /\ \A k \in CopiesOf(src, i) : mixer[k].amplify = sources[src][2]
                ELSE i > 0 => CopiesOf(src, i) = {}

\* with a tempo of 1..65535 BPM the mix is as C7 says
MixOneCopyPerActiveStepForTempoAbove0 ==
    (pc \in {"mix_done", "mix_panicked"} /\ tempo >= 1) => C7_OneCopyPerActiveStep

\* at 120 BPM the active step at index 3 is scheduled at 0.375 s
MixCopyAtIndex3 ==
    /\ pc = "mix_done"
    /\ tempo = 120
    /\ \E src \in DOMAIN sources :
        /\ ActiveAt(src) = {1, 3}
        /\ \E k \in 1..Len(mixer) :
            mixer[k] = [source |-> src, amplify |-> 1000, delay |-> 375000]

====
